---- MODULE Spec2Model ----
(***************************************************************************)
(* Academic-records manager (gestor-academico2): the REST handlers of      *)
(* server/routes.ts over the tables of shared/schema.ts, stored through    *)
(* DatabaseStorage (server/storage.ts).                                    *)
(*                                                                         *)
(* Every handler is one action: it reads the tables, decides its response  *)
(* as the code does and performs the writes the code performs.  The        *)
(* response of the handler that ran last is kept in resp.                  *)
(*                                                                         *)
(* Columns no handler modelled here reads (year, hoursCount, email,        *)
(* createdAt, updatedAt, ...) are left out of the rows.                    *)
(***************************************************************************)
EXTENDS Integers, Sequences, FiniteSets, TLC

(***************************************************************************)
(* Bounds of the model.                                                    *)
(***************************************************************************)
MaxRequirements == 2      \* rows ever inserted into requirements
MaxStudentSubjects == 2   \* rows ever inserted into student_subjects (Spec)
MaxEnrollments == 1       \* rows ever inserted into enrollments
MaxRecordRows == 1        \* rows ever inserted into student_subjects (SpecRecord)
MaxStoreRows == 1         \* rows ever inserted into each of requirements,
                          \* student_subjects and enrollments (SpecStore)

VARIABLES
    subjects,         \* table subjects:         set of rows
    requirements,     \* table requirements:     set of rows
    studentSubjects,  \* table student_subjects: set of rows
    enrollments,      \* table enrollments:      set of rows
    careers,          \* table careers:          set of rows
    users,            \* table users:            set of rows
    students,         \* table students:         set of rows
    serial,           \* last value of each table's serial id sequence
    resp,             \* the HTTP response of the handler that ran last
    session,          \* id of the user the client's session is logged in as, 0 if none
    inflight,         \* the requests being handled step by step, by client
    log               \* the latest responses, oldest first

vars == <<subjects, requirements, studentSubjects, enrollments, careers, users,
          students, serial, resp, session, inflight, log>>

\* what a handler that runs in one piece leaves alone
aux == <<session, inflight, log>>

(***************************************************************************)
(* JSON / SQL values.  A value is [t, v]: t = "undefined" (the key is not  *)
(* in the request body), "null", or "val" with the value in v.  v keeps    *)
(* one type per field (0 or "" when t # "val").                            *)
(* A JSON number is held in tenths (70 is 7, 75 is 7.5).                   *)
(***************************************************************************)
UndefinedNum == [t |-> "undefined", v |-> 0]
NullNum == [t |-> "null", v |-> 0]
Num(n) == [t |-> "val", v |-> n]
UndefinedStr == [t |-> "undefined", v |-> ""]
NullStr == [t |-> "null", v |-> ""]
Str(s) == [t |-> "val", v |-> s]

\* JavaScript truthiness of a number / of a string
TruthyNum(x) == x.t = "val" /\ x.v # 0
TruthyStr(x) == x.t = "val" /\ x.v # ""


\* parseInt applied to a JSON number: String(7.5) is "7.5", parseInt gives 7
parseInt(x) == x.v \div 10
\* a JSON number that is an integer, as the integer column holds it
IntColumn(x) == IF x.t = "val" THEN Num(x.v \div 10) ELSE NullNum
\* new Date(isoString), as days since 1970-01-01
NewDate(s) == CASE s = "2024-07-01" -> 19905
                [] s = "2025-03-15" -> 20162
                [] OTHER -> 0

(***************************************************************************)
(* The response of a handler, with the request it answers: HTTP status     *)
(* code, the error of its JSON body (<<>> when there is none), the storage *)
(* methods it awaited in order and the id of the row it returns (0 when it *)
(* returns none).                                                          *)
(***************************************************************************)
Response(op, req, code, error, calls, id) ==
    [op |-> op, req |-> req, code |-> code, error |-> error, calls |-> calls, id |-> id]

(***************************************************************************)
(* DatabaseStorage: reads                                                  *)
(***************************************************************************)
\* the rows a SELECT ... WHERE id = ? returns: none or one
getSubject(id) == {s \in subjects : s.id = id}

\* variant: the rows of the subject and of the subjects it requires
getRequirementsClosure(subjectId) ==
    {r \in requirements :
        \/ r.subjectId = subjectId
        \/ \E q \in requirements :
              q.subjectId = subjectId /\ r.subjectId = q.requiredSubjectId}

getRequirements(subjectId) == {r \in requirements : r.subjectId = subjectId}

\* a read that misses the rows written since the server started
getStudentSubjectsStale(studentId) == {}

getStudentSubjects(studentId) == {ss \in studentSubjects : ss.studentId = studentId}

\* the orders in which a SELECT without ORDER BY may return the rows of S
RowOrders(S) ==
    {q \in [1..Cardinality(S) -> S] : \A x \in S : \E i \in 1..Cardinality(S) : q[i] = x}

(***************************************************************************)
(* DatabaseStorage: writes.  Each gives the table after the INSERT.        *)
(***************************************************************************)
createSubject(data) ==
    subjects \cup {[id |-> serial.subjects + 1, careerId |-> data.careerId,
                     code |-> data.code, name |-> data.name]}

addRequirement(data) ==
    requirements \cup {[id |-> serial.requirements + 1,
                        subjectId |-> data.subjectId,
                        requiredSubjectId |-> data.requiredSubjectId]}

\* variant: a student has one record of a subject in a status at most
addStudentSubjectOnce(ssData) ==
    IF \E ss \in studentSubjects :
          /\ ss.studentId = ssData.studentId
          /\ ss.subjectId = ssData.subjectId
          /\ ss.status = ssData.status
    THEN studentSubjects
    ELSE studentSubjects \cup {[id |-> serial.studentSubjects + 1,
                                studentId |-> ssData.studentId,
                                subjectId |-> ssData.subjectId,
                                status |-> ssData.status,
                                grade |-> ssData.grade,
                                date |-> ssData.date,
                                book |-> ssData.book,
                                folio |-> ssData.folio]}

addStudentSubject(ssData) ==
    studentSubjects \cup {[id |-> serial.studentSubjects + 1,
                           studentId |-> ssData.studentId,
                           subjectId |-> ssData.subjectId,
                           status |-> ssData.status,
                           grade |-> ssData.grade,
                           date |-> ssData.date,
                           book |-> ssData.book,
                           folio |-> ssData.folio]}

\* auth-utils: the hash of a password, and the comparison of a supplied
\* password with a stored hash
hashPassword(password) == <<"hashed", password>>
comparePasswords(supplied, stored) == stored = hashPassword(supplied)

\* users.role has a default but every caller gives the role
createUser(userData) ==
    users \cup {[id |-> serial.users + 1, username |-> userData.username,
                  password |-> userData.password, role |-> userData.role]}

createEnrollment(enrollmentData) ==
    enrollments \cup {[id |-> serial.enrollments + 1,
                       studentId |-> enrollmentData.studentId,
                       subjectId |-> enrollmentData.subjectId,
                       type |-> enrollmentData.type,
                       examDate |-> NullNum]}

NextSerial(table) == [serial EXCEPT ![table] = @ + 1]

(***************************************************************************)
(* POST /api/subjects and POST /api/requirements.  Neither checks that a   *)
(* referenced row exists.                                                  *)
(***************************************************************************)
PostSubjects(body) ==
    /\ subjects' = createSubject(body)
    /\ serial' = NextSerial("subjects")
    /\ resp' = Response("POST /api/subjects", body, 201, <<>>, <<"createSubject">>,
                        serial.subjects + 1)
    /\ UNCHANGED <<requirements, studentSubjects, enrollments, careers, users, students>>

PostRequirements(body) ==
    /\ requirements' = addRequirement(body)
    /\ serial' = NextSerial("requirements")
    /\ resp' = Response("POST /api/requirements", body, 201, <<>>, <<"addRequirement">>,
                        serial.requirements + 1)
    /\ UNCHANGED <<subjects, studentSubjects, enrollments, careers, users, students>>

(***************************************************************************)
(* POST /api/student-subjects: direct record entry.                        *)
(***************************************************************************)
\* insertStudentSubjectSchema.parse: status is a required string; the
\* nullable columns may be left out or null
insertStudentSubjectSchemaOk(data) == data.status.t = "val"

\* the date of the body: an ISO string becomes a Date before validation
PostDate(date) == IF TruthyStr(date) THEN Num(NewDate(date.v)) ELSE NullNum

\* a text column given as undefined or null is stored NULL
TextColumn(x) == IF x.t = "val" THEN x ELSE NullStr

PostStudentSubjects(body) ==
    IF insertStudentSubjectSchemaOk(body)
    THEN /\ studentSubjects' = addStudentSubject(
                [studentId |-> body.studentId,
                 subjectId |-> body.subjectId,
                 status |-> body.status.v,
                 grade |-> IntColumn(body.grade),
                 date |-> PostDate(body.date),
                 book |-> TextColumn(body.book),
                 folio |-> TextColumn(body.folio)])
         /\ serial' = NextSerial("studentSubjects")
         /\ resp' = Response("POST /api/student-subjects", body, 201, <<>>,
                             <<"addStudentSubject">>, serial.studentSubjects + 1)
         /\ UNCHANGED <<subjects, requirements, enrollments, careers, users, students>>
    ELSE /\ resp' = Response("POST /api/student-subjects", body, 400, <<"ZodError">>, <<>>, 0)
         /\ UNCHANGED <<subjects, requirements, studentSubjects, enrollments, careers,
                        users, students, serial>>

(***************************************************************************)
(* POST /api/enrollments                                                   *)
(***************************************************************************)
\* insertEnrollmentSchema.parse: type is a required string
insertEnrollmentSchemaOk(data) == data.type.t = "val"

\* variant: the status "regular" is not accepted
hasCompletedAcreditadaOnly(rows, requirement) ==
    \E ss \in rows :
        ss.subjectId = requirement.requiredSubjectId /\ ss.status = "acreditada"

\* routes.ts: studentSubjects.some(ss => ...)
hasCompleted(rows, requirement) ==
    \E ss \in rows :
        /\ ss.subjectId = requirement.requiredSubjectId
        /\ (ss.status = "acreditada" \/ ss.status = "regular")

\* variant: the handler returns on the first row whenever some row is unmet
RECURSIVE PrerequisiteLoopFirstRow(_, _, _)
PrerequisiteLoopFirstRow(reqs, studentId, i) ==
    IF \A k \in i..Len(reqs) : hasCompleted(getStudentSubjects(studentId), reqs[k])
    THEN 0 ELSE i

\* the for loop over the requirements, from index i: the index of the
\* requirement on which the handler returns, 0 when the loop runs to its end
RECURSIVE PrerequisiteLoop(_, _, _)
PrerequisiteLoop(reqs, studentId, i) ==
    IF i > Len(reqs) THEN 0
    ELSE IF hasCompleted(getStudentSubjects(studentId), reqs[i])
         THEN PrerequisiteLoop(reqs, studentId, i + 1)
         ELSE i

\* `Falta regularizar materia ${requiredSubject?.code} - ${requiredSubject?.name}`
FaltaRegularizar(requiredSubjectId) ==
    LET found == getSubject(requiredSubjectId) IN
    IF found = {} THEN <<"Falta regularizar materia", "undefined", "undefined">>
    ELSE LET requiredSubject == CHOOSE s \in found : TRUE IN
         <<"Falta regularizar materia", requiredSubject.code, requiredSubject.name>>

\* variant: the subject is not looked up
SubjectFoundUnchecked(body) == TRUE

\* if (!subject) return res.status(400)...
SubjectFound(body) == getSubject(body.subjectId) # {}

\* variant: the loop runs for "cursada" enrollments only
CheckedRequirementsCursadaOnly(body, reqs) ==
    IF body.type.v = "cursada" THEN reqs ELSE <<>>

\* the requirements the loop runs over: all the rows returned, whatever the
\* type of the enrollment
CheckedRequirements(body, reqs) == reqs

\* n awaits of the same storage method
Awaits(method, n) == [k \in 1..n |-> method]

\* the response of the handler to body when getRequirements returns reqs
EnrollResponse(body, reqs) ==
    IF ~insertEnrollmentSchemaOk(body)
    THEN Response("POST /api/enrollments", body, 400, <<"ZodError">>, <<>>, 0)
    ELSE IF ~SubjectFound(body)
    THEN Response("POST /api/enrollments", body, 400, <<"Subject not found">>,
                  <<"getSubject">>, 0)
    ELSE LET checked == CheckedRequirements(body, reqs)
             i == PrerequisiteLoop(checked, body.studentId, 1) IN
         IF i # 0
         THEN Response("POST /api/enrollments", body, 400,
                       FaltaRegularizar(checked[i].requiredSubjectId),
                       <<"getSubject", "getRequirements">>
                           \o Awaits("getStudentSubjects", i) \o <<"getSubject">>,
                       0)
         ELSE Response("POST /api/enrollments", body, 201, <<>>,
                       <<"getSubject", "getRequirements">>
                           \o Awaits("getStudentSubjects", Len(checked))
                           \o <<"createEnrollment">>
                           \o (IF body.type.v = "cursada"
                               THEN <<"addStudentSubject">> ELSE <<>>),
                       serial.enrollments + 1)

\* variant: the record is created with grade 0
CursandoRecordGradeZero(validatedData) ==
    [studentId |-> validatedData.studentId,
     subjectId |-> validatedData.subjectId,
     status |-> "cursando",
     grade |-> Num(0), date |-> NullNum, book |-> NullStr, folio |-> NullStr]

\* the student-subject record a "cursada" enrollment creates
CursandoRecord(validatedData) ==
    [studentId |-> validatedData.studentId,
     subjectId |-> validatedData.subjectId,
     status |-> "cursando",
     grade |-> NullNum, date |-> NullNum, book |-> NullStr, folio |-> NullStr]

\* variant: the enrollment is written before the requirements are checked
EnrollmentsAfterWriteFirst(r, body) ==
    IF r.error \in {<<"ZodError">>, <<"Subject not found">>}
    THEN enrollments
    ELSE enrollments \cup {[id |-> serial.enrollments + 1,
                            studentId |-> body.studentId,
                            subjectId |-> body.subjectId,
                            type |-> body.type.v,
                            examDate |-> NullNum]}

\* variant: the student-subject record is created for every type
StudentSubjectsAfterAnyType(r, body) ==
    IF r.code = 201
    THEN studentSubjects \cup {[id |-> serial.studentSubjects + 1,
                                studentId |-> body.studentId,
                                subjectId |-> body.subjectId,
                                status |-> "cursando",
                                grade |-> NullNum, date |-> NullNum,
                                book |-> NullStr, folio |-> NullStr]}
    ELSE studentSubjects

\* the rows of enrollments / student_subjects after the handler answered r
EnrollmentsAfter(r, body) ==
    IF r.code = 201
    THEN createEnrollment([studentId |-> body.studentId,
                           subjectId |-> body.subjectId,
                           type |-> body.type.v])
    ELSE enrollments

StudentSubjectsAfter(r, body) ==
    IF r.code = 201 /\ body.type.v = "cursada"
    THEN addStudentSubject(CursandoRecord(body))
    ELSE studentSubjects

PostEnrollments(body, reqs) ==
    /\ reqs \in RowOrders(getRequirements(body.subjectId))
    /\ LET r == EnrollResponse(body, reqs) IN
       /\ resp' = r
       /\ enrollments' = EnrollmentsAfter(r, body)
       /\ studentSubjects' = StudentSubjectsAfter(r, body)
       \* every INSERT takes the next value of its table's sequence
       /\ serial' = [serial EXCEPT
                        !.enrollments = Cardinality(enrollments') - Cardinality(enrollments) + @,
                        !.studentSubjects =
                            Cardinality(studentSubjects') - Cardinality(studentSubjects) + @]
    /\ UNCHANGED <<subjects, requirements, careers, users, students>>

(***************************************************************************)
(* POST /api/enrollments, one storage call at a time.  The handler is an   *)
(* async function: it gives up control at every await, so the storage      *)
(* calls of requests in progress interleave.  inflight[c] holds the local  *)
(* variables of the handler of client c's request and pc, the storage call *)
(* it is about to make.  A storage call may throw (the database is         *)
(* unavailable); the handler's catch answers 500.                          *)
(***************************************************************************)
Handler(body) ==
    [pc |-> "getSubject", body |-> body, reqs |-> <<>>, i |-> 1,
     studentSubjects |-> {}, enrollment |-> 0, calls |-> <<>>,
     resp |-> Response("none", <<>>, 0, <<>>, <<>>, 0)]

\* the handler of client c goes on to its next await
Continue(c, h) ==
    /\ inflight' = [inflight EXCEPT ![c] = h]
    /\ resp' = resp

\* the handler of client c sends its response
Respond(c, h, code, error, id) ==
    LET r == Response("POST /api/enrollments", h.body, code, error, h.calls, id) IN
    /\ inflight' = [inflight EXCEPT ![c] = [h EXCEPT !.pc = "done", !.resp = r]]
    /\ resp' = r

Called(c, method) == [inflight[c] EXCEPT !.calls = Append(@, method)]

\* the storage method the handler awaits at pc
Method(pc) == IF pc = "getRequiredSubject" THEN "getSubject" ELSE pc

\* a request arrives: insertEnrollmentSchema.parse(req.body)
Receive(body) ==
    /\ inflight' = Append(inflight,
          IF insertEnrollmentSchemaOk(body)
          THEN Handler(body)
          ELSE [Handler(body) EXCEPT
                  !.pc = "done",
                  !.resp = Response("POST /api/enrollments", body, 400,
                                    <<"ZodError">>, <<>>, 0)])
    /\ resp' = IF insertEnrollmentSchemaOk(body) THEN resp
               ELSE Response("POST /api/enrollments", body, 400, <<"ZodError">>, <<>>, 0)
    /\ UNCHANGED <<subjects, requirements, studentSubjects, enrollments, careers,
                   users, students, serial>>

\* const subject = await storage.getSubject(validatedData.subjectId)
AwaitGetSubject(c) ==
    LET h == Called(c, "getSubject") IN
    /\ inflight[c].pc = "getSubject"
    /\ IF getSubject(h.body.subjectId) = {}
       THEN Respond(c, h, 400, <<"Subject not found">>, 0)
       ELSE Continue(c, [h EXCEPT !.pc = "getRequirements"])
    /\ UNCHANGED <<subjects, requirements, studentSubjects, enrollments, careers,
                   users, students, serial>>

\* const requirements = await storage.getRequirements(subject.id)
AwaitGetRequirements(c, reqs) ==
    LET h == Called(c, "getRequirements") IN
    /\ inflight[c].pc = "getRequirements"
    /\ reqs \in RowOrders(getRequirements(h.body.subjectId))
    /\ Continue(c, [h EXCEPT !.reqs = reqs, !.i = 1,
                             !.pc = IF Len(reqs) = 0 THEN "createEnrollment"
                                    ELSE "getStudentSubjects"])
    /\ UNCHANGED <<subjects, requirements, studentSubjects, enrollments, careers,
                   users, students, serial>>

\* one turn of the loop: const studentSubjects = await
\* storage.getStudentSubjects(validatedData.studentId), then hasCompleted
AwaitGetStudentSubjects(c) ==
    LET h == [Called(c, "getStudentSubjects") EXCEPT
                 !.studentSubjects = getStudentSubjects(inflight[c].body.studentId)] IN
    /\ inflight[c].pc = "getStudentSubjects"
    /\ Continue(c,
          IF ~hasCompleted(h.studentSubjects, h.reqs[h.i])
          THEN [h EXCEPT !.pc = "getRequiredSubject"]
          ELSE IF h.i < Len(h.reqs)
          THEN [h EXCEPT !.i = @ + 1]
          ELSE [h EXCEPT !.pc = "createEnrollment"])
    /\ UNCHANGED <<subjects, requirements, studentSubjects, enrollments, careers,
                   users, students, serial>>

\* const requiredSubject = await storage.getSubject(requirement.requiredSubjectId)
AwaitGetRequiredSubject(c) ==
    LET h == Called(c, "getSubject") IN
    /\ inflight[c].pc = "getRequiredSubject"
    /\ Respond(c, h, 400, FaltaRegularizar(h.reqs[h.i].requiredSubjectId), 0)
    /\ UNCHANGED <<subjects, requirements, studentSubjects, enrollments, careers,
                   users, students, serial>>

\* variant: the requirements are checked again in the statement that
\* inserts the enrollment
AwaitCreateEnrollmentChecked(c) ==
    LET h == [Called(c, "createEnrollment") EXCEPT
                 !.enrollment = serial.enrollments + 1] IN
    /\ inflight[c].pc = "createEnrollment"
    /\ IF \E q \in getRequirements(h.body.subjectId) :
             ~hasCompleted(getStudentSubjects(h.body.studentId), q)
       THEN /\ Respond(c, [h EXCEPT !.enrollment = 0], 400,
                       <<"Falta regularizar materia">>, 0)
            /\ UNCHANGED <<enrollments, serial>>
       ELSE /\ enrollments' = createEnrollment([studentId |-> h.body.studentId,
                                                subjectId |-> h.body.subjectId,
                                                type |-> h.body.type.v])
            /\ serial' = NextSerial("enrollments")
            /\ IF h.body.type.v = "cursada"
               THEN Continue(c, [h EXCEPT !.pc = "addStudentSubject"])
               ELSE Respond(c, h, 201, <<>>, h.enrollment)
    /\ UNCHANGED <<subjects, requirements, studentSubjects, careers, users, students>>

\* const enrollment = await storage.createEnrollment(validatedData)
AwaitCreateEnrollment(c) ==
    LET h == [Called(c, "createEnrollment") EXCEPT
                 !.enrollment = serial.enrollments + 1] IN
    /\ inflight[c].pc = "createEnrollment"
    /\ enrollments' = createEnrollment([studentId |-> h.body.studentId,
                                        subjectId |-> h.body.subjectId,
                                        type |-> h.body.type.v])
    /\ serial' = NextSerial("enrollments")
    /\ IF h.body.type.v = "cursada"
       THEN Continue(c, [h EXCEPT !.pc = "addStudentSubject"])
       ELSE Respond(c, h, 201, <<>>, h.enrollment)
    /\ UNCHANGED <<subjects, requirements, studentSubjects, careers, users, students>>

\* the call skipped when the student already has a record of the subject, as
\* a unique index on (student_id, subject_id) with ON CONFLICT DO NOTHING would
AwaitAddStudentSubjectUnique(c) ==
    LET h == Called(c, "addStudentSubject") IN
    /\ inflight[c].pc = "addStudentSubject"
    /\ IF \E ss \in studentSubjects :
             ss.studentId = h.body.studentId /\ ss.subjectId = h.body.subjectId
       THEN UNCHANGED <<studentSubjects, serial>>
       ELSE /\ studentSubjects' = addStudentSubject(CursandoRecord(h.body))
            /\ serial' = NextSerial("studentSubjects")
    /\ Respond(c, h, 201, <<>>, h.enrollment)
    /\ UNCHANGED <<subjects, requirements, enrollments, careers, users, students>>

\* await storage.addStudentSubject({... status: "cursando" ...}), then
\* res.status(201).json(enrollment)
AwaitAddStudentSubject(c) ==
    LET h == Called(c, "addStudentSubject") IN
    /\ inflight[c].pc = "addStudentSubject"
    /\ studentSubjects' = addStudentSubject(CursandoRecord(h.body))
    /\ serial' = NextSerial("studentSubjects")
    /\ Respond(c, h, 201, <<>>, h.enrollment)
    /\ UNCHANGED <<subjects, requirements, enrollments, careers, users, students>>

\* the catch undoing the enrollment the handler had written
StoreThrowsCompensated(c) ==
    LET h == Called(c, Method(inflight[c].pc)) IN
    /\ inflight[c].pc # "done"
    /\ Respond(c, h, 500, <<"Failed to create enrollment">>, 0)
    /\ enrollments' = {e \in enrollments : e.id # h.enrollment}
    /\ UNCHANGED <<subjects, requirements, studentSubjects, careers, users, students,
                   serial>>

\* the storage call the handler awaits throws: the catch answers 500 and
\* writes nothing
StoreThrows(c) ==
    LET h == Called(c, Method(inflight[c].pc)) IN
    /\ inflight[c].pc # "done"
    /\ Respond(c, h, 500, <<"Failed to create enrollment">>, 0)
    /\ UNCHANGED <<subjects, requirements, studentSubjects, enrollments, careers,
                   users, students, serial>>

(***************************************************************************)
(* PATCH /api/student-subjects/:id                                         *)
(***************************************************************************)
\* status && !["cursando", "acreditada", "libre"].includes(status)
InvalidStatus(status) ==
    TruthyStr(status) /\ status.v \notin {"cursando", "acreditada", "libre"}

\* the accreditation check left out
GradeMissingNever(status, grade) == FALSE

\* status === "acreditada" && !grade
GradeMissing(status, grade) == status = Str("acreditada") /\ ~TruthyNum(grade)

\* grade ? parseInt(grade) : null
PatchGrade(grade) == IF TruthyNum(grade) THEN Num(parseInt(grade)) ELSE NullNum

\* date ? new Date(date) : null
PatchDate(date) == IF TruthyStr(date) THEN Num(NewDate(date.v)) ELSE NullNum

\* const updateData = { status, grade: ..., date: ..., book, folio }
PatchUpdateData(body) ==
    [status |-> body.status,
     grade |-> PatchGrade(body.grade),
     date |-> PatchDate(body.date),
     book |-> body.book,
     folio |-> body.folio]

\* DatabaseStorage.updateStudentSubject: the columns of the UPDATE are the
\* fields of data that are not undefined
SetColumns(row, data) ==
    [row EXCEPT
        !.status = IF data.status.t = "undefined" THEN @ ELSE data.status.v,
        !.grade = IF data.grade.t = "undefined" THEN @ ELSE data.grade,
        !.date = IF data.date.t = "undefined" THEN @ ELSE data.date,
        !.book = IF data.book.t = "undefined" THEN @ ELSE data.book,
        !.folio = IF data.folio.t = "undefined" THEN @ ELSE data.folio]

\* the table after UPDATE student_subjects SET ... WHERE id = ?
updateStudentSubject(id, data) ==
    {IF row.id = id THEN SetColumns(row, data) ELSE row : row \in studentSubjects}

\* the call throws: the database refuses NULL in the NOT NULL column status,
\* or the UPDATE returned no row
updateStudentSubjectThrows(id, data) ==
    \/ data.status.t = "null"
    \/ \A row \in studentSubjects : row.id # id

\* the handler wrongly re-validating the prerequisites of the record's subject
PatchResponseChecked(id, body) ==
    LET req == [id |-> id, body |-> body] IN
    IF InvalidStatus(body.status)
    THEN Response("PATCH /api/student-subjects/:id", req, 400,
                  <<"Invalid status value">>, <<>>, 0)
    ELSE IF GradeMissing(body.status, body.grade)
    THEN Response("PATCH /api/student-subjects/:id", req, 400,
                  <<"Grade is required for accredited subjects">>, <<>>, 0)
    ELSE IF \E row \in studentSubjects :
               /\ row.id = id
               /\ \E requirement \in getRequirements(row.subjectId) :
                     ~hasCompleted(getStudentSubjects(row.studentId), requirement)
    THEN Response("PATCH /api/student-subjects/:id", req, 400,
                  <<"Falta regularizar materia">>, <<>>, 0)
    ELSE IF updateStudentSubjectThrows(id, PatchUpdateData(body))
    THEN Response("PATCH /api/student-subjects/:id", req, 500,
                  <<"Failed to update student subject">>,
                  <<"updateStudentSubject">>, 0)
    ELSE Response("PATCH /api/student-subjects/:id", req, 200, <<>>,
                  <<"updateStudentSubject">>, id)

\* variant: a record that is "acreditada" or "libre" takes no other status
PatchResponseTerminal(id, body) ==
    LET req == [id |-> id, body |-> body] IN
    IF InvalidStatus(body.status)
    THEN Response("PATCH /api/student-subjects/:id", req, 400,
                  <<"Invalid status value">>, <<>>, 0)
    ELSE IF GradeMissing(body.status, body.grade)
    THEN Response("PATCH /api/student-subjects/:id", req, 400,
                  <<"Grade is required for accredited subjects">>, <<>>, 0)
    ELSE IF \E row \in studentSubjects :
               /\ row.id = id
               /\ row.status \in {"acreditada", "libre"}
               /\ body.status.t = "val"
               /\ body.status.v # row.status
    THEN Response("PATCH /api/student-subjects/:id", req, 400,
                  <<"Invalid status value">>, <<>>, 0)
    ELSE IF updateStudentSubjectThrows(id, PatchUpdateData(body))
    THEN Response("PATCH /api/student-subjects/:id", req, 500,
                  <<"Failed to update student subject">>,
                  <<"updateStudentSubject">>, 0)
    ELSE Response("PATCH /api/student-subjects/:id", req, 200, <<>>,
                  <<"updateStudentSubject">>, id)

PatchResponse(id, body) ==
    LET req == [id |-> id, body |-> body] IN
    IF InvalidStatus(body.status)
    THEN Response("PATCH /api/student-subjects/:id", req, 400,
                  <<"Invalid status value">>, <<>>, 0)
    ELSE IF GradeMissing(body.status, body.grade)
    THEN Response("PATCH /api/student-subjects/:id", req, 400,
                  <<"Grade is required for accredited subjects">>, <<>>, 0)
    ELSE IF updateStudentSubjectThrows(id, PatchUpdateData(body))
    THEN Response("PATCH /api/student-subjects/:id", req, 500,
                  <<"Failed to update student subject">>,
                  <<"updateStudentSubject">>, 0)
    ELSE Response("PATCH /api/student-subjects/:id", req, 200, <<>>,
                  <<"updateStudentSubject">>, id)

PatchStudentSubject(id, body) ==
    LET r == PatchResponse(id, body) IN
    /\ resp' = r
    /\ studentSubjects' = IF r.code = 200
                          THEN updateStudentSubject(id, PatchUpdateData(body))
                          ELSE studentSubjects
    /\ UNCHANGED <<subjects, requirements, enrollments, careers, users, students, serial>>

(***************************************************************************)
(* Careers, students and the DELETE routes.                                *)
(***************************************************************************)
getSubjects(careerId) == {s \in subjects : s.careerId = careerId}

getUserByUsername(username) == {u \in users : u.username = username}

createCareer(careerData) ==
    careers \cup {[id |-> serial.careers + 1, name |-> careerData.name]}

createStudent(studentData) ==
    students \cup {[id |-> serial.students + 1,
                    userId |-> studentData.userId,
                    careerId |-> studentData.careerId,
                    fileNumber |-> studentData.fileNumber,
                    status |-> studentData.status]}

\* UPDATE students SET ... WHERE id = ?, for the fields of a partial body
updateStudent(id, studentData) ==
    {IF st.id = id
     THEN [st EXCEPT !.status = IF studentData.status.t = "val"
                                THEN studentData.status.v ELSE @]
     ELSE st : st \in students}

\* DELETE FROM enrollments WHERE id = ?
deleteEnrollment(id) == {e \in enrollments : e.id # id}

\* variant: only the requirements of the subject go, not those that
\* require it
deleteSubjectOwnRows(ids) ==
    [requirements |-> {r \in requirements : r.subjectId \notin ids},
     subjects |-> {s \in subjects : s.id \notin ids}]

\* deleteSubject for each id of ids: the requirements that name the subject
\* on either side go, then the subject
deleteSubject(ids) ==
    [requirements |-> {r \in requirements :
                          r.subjectId \notin ids /\ r.requiredSubjectId \notin ids},
     subjects |-> {s \in subjects : s.id \notin ids}]

\* deleteCareer: deleteSubject for every subject of the career, then the career
deleteCareer(id) ==
    deleteSubject({s.id : s \in getSubjects(id)})
        @@ [careers |-> {c \in careers : c.id # id}]

PostCareers(body) ==
    /\ careers' = createCareer(body)
    /\ serial' = NextSerial("careers")
    /\ resp' = Response("POST /api/careers", body, 201, <<>>, <<"createCareer">>,
                        serial.careers + 1)
    /\ UNCHANGED <<subjects, requirements, studentSubjects, enrollments, users, students>>

\* the handler wrongly removing the records of the subject too
DeleteSubjectsCascade(id) ==
    /\ requirements' = deleteSubject({id}).requirements
    /\ subjects' = deleteSubject({id}).subjects
    /\ studentSubjects' = {ss \in studentSubjects : ss.subjectId # id}
    /\ resp' = Response("DELETE /api/subjects/:id", [id |-> id], 204, <<>>,
                        <<"deleteSubject">>, 0)
    /\ UNCHANGED <<enrollments, careers, users, students, serial>>

DeleteSubjects(id) ==
    /\ requirements' = deleteSubject({id}).requirements
    /\ subjects' = deleteSubject({id}).subjects
    /\ resp' = Response("DELETE /api/subjects/:id", [id |-> id], 204, <<>>,
                        <<"deleteSubject">>, 0)
    /\ UNCHANGED <<studentSubjects, enrollments, careers, users, students, serial>>

DeleteCareers(id) ==
    /\ requirements' = deleteCareer(id).requirements
    /\ subjects' = deleteCareer(id).subjects
    /\ careers' = deleteCareer(id).careers
    /\ resp' = Response("DELETE /api/careers/:id", [id |-> id], 204, <<>>,
                        <<"deleteCareer">>, 0)
    /\ UNCHANGED <<studentSubjects, enrollments, users, students, serial>>

\* the handler wrongly removing the record of the course too
DeleteEnrollmentsCascade(id) ==
    /\ enrollments' = deleteEnrollment(id)
    /\ studentSubjects' =
          {ss \in studentSubjects :
              ~(/\ ss.status = "cursando"
                /\ \E e \in enrollments :
                      /\ e.id = id
                      /\ e.studentId = ss.studentId
                      /\ e.subjectId = ss.subjectId)}
    /\ resp' = Response("DELETE /api/enrollments/:id", [id |-> id], 204, <<>>,
                        <<"deleteEnrollment">>, 0)
    /\ UNCHANGED <<subjects, requirements, careers, users, students, serial>>

DeleteEnrollments(id) ==
    /\ enrollments' = deleteEnrollment(id)
    /\ resp' = Response("DELETE /api/enrollments/:id", [id |-> id], 204, <<>>,
                        <<"deleteEnrollment">>, 0)
    /\ UNCHANGED <<subjects, requirements, studentSubjects, careers, users, students,
                   serial>>

(***************************************************************************)
(* POST /api/students and PUT /api/students/:id                            *)
(***************************************************************************)
\* !username || !password || ... || !enrollmentDate
FaltanCampos(body) ==
    \/ ~TruthyStr(body.username) \/ ~TruthyStr(body.password)
    \/ ~TruthyStr(body.fullName) \/ ~TruthyStr(body.email)
    \/ ~TruthyNum(body.careerId) \/ ~TruthyStr(body.fileNumber)
    \/ ~TruthyStr(body.documentId) \/ ~TruthyNum(body.enrollmentYear)
    \/ ~TruthyStr(body.enrollmentDate)

\* new Date(enrollmentDate): a string Date.parse does not accept gives the
\* Invalid Date
InvalidDate == [t |-> "invalid", v |-> 0]
StudentDate(date) ==
    IF date.v \in {"2024-07-01", "2025-03-15"} THEN Num(NewDate(date.v)) ELSE InvalidDate

\* the student of a body, for the user just created
StudentData(body) ==
    [userId |-> serial.users + 1,
     careerId |-> parseInt(body.careerId),
     fileNumber |-> body.fileNumber.v,
     enrollmentDate |-> StudentDate(body.enrollmentDate),
     status |-> IF TruthyStr(body.status) THEN body.status.v ELSE "active"]

\* insertStudentSchema.parse(studentData): enrollmentDate is a z.date(),
\* which refuses the Invalid Date
insertStudentSchemaOk(studentData) == studentData.enrollmentDate.t = "val"

PostStudentsResponse(body) ==
    IF FaltanCampos(body)
    THEN Response("POST /api/students", body, 400, <<"Faltan campos requeridos">>,
                  <<>>, 0)
    ELSE IF getUserByUsername(body.username.v) # {}
    THEN Response("POST /api/students", body, 400,
                  <<"El nombre de usuario ya está en uso">>,
                  <<"getUserByUsername">>, 0)
    ELSE IF \E st \in students : st.fileNumber = body.fileNumber.v
    THEN Response("POST /api/students", body, 400,
                  <<"El número de legajo ya está en uso">>,
                  <<"getUserByUsername", "getStudents">>, 0)
    ELSE IF ~insertStudentSchemaOk(StudentData(body))
    THEN Response("POST /api/students", body, 400, <<"ZodError">>,
                  <<"getUserByUsername", "getStudents", "createUser">>, 0)
    ELSE Response("POST /api/students", body, 201, <<>>,
                  <<"getUserByUsername", "getStudents", "createUser", "createStudent">>,
                  serial.students + 1)

PostStudents(body) ==
    LET r == PostStudentsResponse(body) IN
    /\ resp' = r
    /\ IF r.code = 201
       THEN /\ users' = createUser([username |-> body.username.v,
                                     password |-> hashPassword(body.password.v),
                                     role |-> "student"])
            /\ students' = createStudent(StudentData(body))
            /\ serial' = [serial EXCEPT !.users = @ + 1, !.students = @ + 1]
       ELSE IF r.error = <<"ZodError">>
       \* the user was created before the validation threw; the catch
       \* deletes nothing
       THEN /\ users' = createUser([username |-> body.username.v,
                                     password |-> hashPassword(body.password.v),
                                     role |-> "student"])
            /\ serial' = NextSerial("users")
            /\ students' = students
       ELSE UNCHANGED <<users, students, serial>>
    /\ UNCHANGED <<subjects, requirements, studentSubjects, enrollments, careers>>

PutStudents(id, body) ==
    /\ IF \E st \in students : st.id = id
       THEN /\ students' = updateStudent(id, body)
            /\ resp' = Response("PUT /api/students/:id", [id |-> id, body |-> body],
                                200, <<>>, <<"updateStudent">>, id)
       ELSE /\ students' = students
            /\ resp' = Response("PUT /api/students/:id", [id |-> id, body |-> body],
                                500, <<"Failed to update student">>,
                                <<"updateStudent">>, 0)
    /\ UNCHANGED <<subjects, requirements, studentSubjects, enrollments, careers, users,
                   serial>>

(***************************************************************************)
(* Sessions (server/auth.ts).  The session of the client holds the id of   *)
(* the user who logged in; req.isAuthenticated() is true when it holds     *)
(* one.  Of the routes modelled here none reads the session.               *)
(***************************************************************************)
\* passport LocalStrategy: the user of the username, if the password matches
Authenticate(username, password) ==
    {u \in getUserByUsername(username) : comparePasswords(password, u.password)}

PostLogin(body) ==
    /\ IF Authenticate(body.username, body.password) = {}
       THEN /\ session' = session
            /\ resp' = Response("POST /api/login", body, 401,
                                <<"Usuario o contraseña incorrectos">>,
                                <<"getUserByUsername">>, 0)
       ELSE LET user == CHOOSE u \in Authenticate(body.username, body.password) : TRUE IN
            /\ session' = user.id
            /\ resp' = Response("POST /api/login", body, 200, <<>>,
                                <<"getUserByUsername">>, user.id)
    /\ UNCHANGED <<subjects, requirements, studentSubjects, enrollments, careers,
                   users, students, serial>>

PostLogout ==
    /\ session' = 0
    /\ resp' = Response("POST /api/logout", <<>>, 200, <<>>, <<>>, 0)
    /\ UNCHANGED <<subjects, requirements, studentSubjects, enrollments, careers,
                   users, students, serial>>

(***************************************************************************)
(* POST /api/register and PATCH /api/users/:id/role (server/auth.ts).      *)
(* passport.deserializeUser reads the user of the session from the table   *)
(* at every request, so req.user.role is the role stored now.              *)
(***************************************************************************)
getUser(id) == {u \in users : u.id = id}

\* UPDATE users SET role = ? WHERE id = ?
updateUser(id, userData) ==
    {IF u.id = id THEN [u EXCEPT !.role = userData.role] ELSE u : u \in users}

\* !username || !password || !fullName || !email
CamposRequeridos(body) ==
    \/ ~TruthyStr(body.username) \/ ~TruthyStr(body.password)
    \/ ~TruthyStr(body.fullName) \/ ~TruthyStr(body.email)

PostRegister(body) ==
    /\ IF CamposRequeridos(body)
       THEN /\ resp' = Response("POST /api/register", body, 400,
                                <<"Todos los campos son requeridos">>, <<>>, 0)
            /\ UNCHANGED <<users, serial, session>>
       ELSE IF getUserByUsername(body.username.v) # {}
       THEN /\ resp' = Response("POST /api/register", body, 400,
                                <<"El nombre de usuario ya existe">>,
                                <<"getUserByUsername">>, 0)
            /\ UNCHANGED <<users, serial, session>>
       ELSE /\ users' = createUser([username |-> body.username.v,
                                     password |-> hashPassword(body.password.v),
                                     role |-> "pendiente"])
            /\ serial' = NextSerial("users")
            \* req.login(user, ...)
            /\ session' = serial.users + 1
            /\ resp' = Response("POST /api/register", body, 201, <<>>,
                                <<"getUserByUsername", "createUser">>,
                                serial.users + 1)
    /\ UNCHANGED <<subjects, requirements, studentSubjects, enrollments, careers,
                   students>>

\* variant: the middleware lets every authenticated user pass
isAdminAnyUser ==
    IF getUser(session) = {} THEN 401 ELSE 0

\* the middleware isAdmin: the status it answers, or 0 when it calls next()
isAdmin ==
    IF getUser(session) = {}
    THEN 401
    ELSE IF \E u \in getUser(session) : u.role # "admin"
    THEN 403
    ELSE 0

validRoles == {"admin", "docente", "estudiante", "pendiente"}

PatchUsersRoleResponse(id, body) ==
    LET req == [id |-> id, body |-> body] IN
    IF isAdmin = 401
    THEN Response("PATCH /api/users/:id/role", req, 401, <<"No autenticado">>, <<>>, 0)
    ELSE IF isAdmin = 403
    THEN Response("PATCH /api/users/:id/role", req, 403,
                  <<"No tienes permisos de administrador">>, <<>>, 0)
    ELSE IF ~TruthyStr(body.role)
    THEN Response("PATCH /api/users/:id/role", req, 400, <<"El rol es requerido">>,
                  <<>>, 0)
    ELSE IF body.role.v \notin validRoles
    THEN Response("PATCH /api/users/:id/role", req, 400, <<"Rol inválido">>, <<>>, 0)
    ELSE IF getUser(id) = {}
    THEN Response("PATCH /api/users/:id/role", req, 500, <<"Error al actualizar rol">>,
                  <<"updateUser">>, 0)
    ELSE Response("PATCH /api/users/:id/role", req, 200, <<>>, <<"updateUser">>, id)

PatchUsersRole(id, body) ==
    LET r == PatchUsersRoleResponse(id, body) IN
    /\ resp' = r
    /\ users' = IF r.code = 200 THEN updateUser(id, [role |-> body.role.v]) ELSE users
    /\ UNCHANGED <<subjects, requirements, studentSubjects, enrollments, careers,
                   students, serial>>

(***************************************************************************)
(* The requests of the enrollment specification.                           *)
(***************************************************************************)
StudentIds == {1, 2}
\* the study plan: the k-th subject created has the k-th code and name
StudyPlan == <<[careerId |-> 1, code |-> "MAT101", name |-> "Algebra I"],
               [careerId |-> 1, code |-> "MAT201", name |-> "Algebra II"]>>
\* subject ids a request may name: those of the study plan, and one more
SubjectIds == 1..(Len(StudyPlan) + 1)

\* MAT201 may be given MAT101 and a subject that is not in the table as
\* requirements, also twice
RequirementBodies == [subjectId : {2}, requiredSubjectId : {1, 3}]

\* student 1 enrolls; a request without type fails validation
EnrollmentBodies ==
    [studentId : {1}, subjectId : SubjectIds, type : {Str("cursada"), Str("examen")}]
        \cup {[studentId |-> 1, subjectId |-> 1, type |-> UndefinedStr]}

\* record entry with a status alone
RecordEntry(studentId, subjectId, status) ==
    [studentId |-> studentId, subjectId |-> subjectId, status |-> Str(status),
     grade |-> UndefinedNum, date |-> UndefinedStr,
     book |-> UndefinedStr, folio |-> UndefinedStr]

\* the required subjects entered as passed: for student 1 as "acreditada"
\* or "regular", for student 2 as "acreditada"
StatusOnlyBodies ==
    {RecordEntry(1, su, st) : su \in {1, 3}, st \in {"acreditada", "regular"}}
        \cup {RecordEntry(2, su, "acreditada") : su \in {1, 3}}

\* no serial sequence of the enrollment specification is beyond its bound
WithinBounds ==
    /\ serial.subjects <= Len(StudyPlan)
    /\ serial.requirements <= MaxRequirements
    /\ serial.studentSubjects <= MaxStudentSubjects
    /\ serial.enrollments <= MaxEnrollments

\* registerRoutes starts with storage.initializeAdminUser(): on the empty
\* database it creates the user "admin" with role "admin"
initializeAdminUser ==
    [id |-> 1, username |-> "admin", password |-> hashPassword("qwerty"),
     role |-> "admin"]

Init ==
    /\ subjects = {}
    /\ requirements = {}
    /\ studentSubjects = {}
    /\ enrollments = {}
    /\ careers = {}
    /\ users = {initializeAdminUser}
    /\ students = {}
    /\ serial = [subjects |-> 0, requirements |-> 0, studentSubjects |-> 0,
                 enrollments |-> 0, careers |-> 0, users |-> 1, students |-> 0]
    /\ resp = Response("none", <<>>, 0, <<>>, <<>>, 0)
    /\ session = 0
    /\ inflight = <<>>
    /\ log = <<>>

Next ==
    \/ serial.subjects < Len(StudyPlan)
          /\ PostSubjects(StudyPlan[serial.subjects + 1]) /\ WithinBounds'
          /\ UNCHANGED aux
    \/ \E body \in RequirementBodies :
          PostRequirements(body) /\ WithinBounds' /\ UNCHANGED aux
    \/ \E body \in StatusOnlyBodies :
          PostStudentSubjects(body) /\ WithinBounds' /\ UNCHANGED aux
    \/ \E body \in EnrollmentBodies :
          \E reqs \in RowOrders(getRequirements(body.subjectId)) :
              PostEnrollments(body, reqs) /\ WithinBounds' /\ UNCHANGED aux

Spec == Init /\ [][Next]_vars

(***************************************************************************)
(* The requests of the record-keeping specification: the records of        *)
(* student 1 in subject 1.                                                 *)
(***************************************************************************)
Body(status, grade, date, book, folio) ==
    [status |-> status, grade |-> grade, date |-> date, book |-> book, folio |-> folio]

\* bodies that give a status, a grade or both: accreditation with no grade,
\* with a null grade, with the grades 0, 3, 7, 7.5 and 11, and every other
\* status alone
StatusGradeBodies ==
    {Body(st, g, UndefinedStr, UndefinedStr, UndefinedStr) :
        st \in {UndefinedStr, Str("acreditada")},
        g \in {UndefinedNum, NullNum, Num(0), Num(30), Num(70), Num(75), Num(110)}}
    \cup {Body(st, UndefinedNum, UndefinedStr, UndefinedStr, UndefinedStr) :
        st \in {NullStr, Str(""), Str("regular"), Str("libre"), Str("cursando")}}

\* bodies that give one field of the paper ledger, as a value or as null,
\* and the body that gives every field
LedgerBodies ==
    {Body(UndefinedStr, UndefinedNum, d, UndefinedStr, UndefinedStr) :
        d \in {NullStr, Str("2024-07-01")}}
    \cup {Body(UndefinedStr, UndefinedNum, UndefinedStr, b, UndefinedStr) :
        b \in {NullStr, Str("L1")}}
    \cup {Body(UndefinedStr, UndefinedNum, UndefinedStr, UndefinedStr, f) :
        f \in {NullStr, Str("F1")}}
    \cup {Body(Str("acreditada"), Num(70), Str("2024-07-01"), Str("L1"), Str("F1"))}

PatchBodies == StatusGradeBodies \cup LedgerBodies

\* record entries: a course being taken, a full accreditation, an
\* accreditation without grade, a status of the earlier revision, and a
\* body without status
NewRecordBodies ==
    {[studentId |-> 1, subjectId |-> 1] @@ b :
        b \in {Body(Str("cursando"), UndefinedNum, UndefinedStr, UndefinedStr, UndefinedStr),
               Body(Str("acreditada"), Num(80), Str("2025-03-15"), Str("L2"), Str("F2")),
               Body(Str("acreditada"), NullNum, NullStr, NullStr, NullStr),
               Body(Str("regular"), UndefinedNum, UndefinedStr, UndefinedStr, UndefinedStr),
               Body(UndefinedStr, UndefinedNum, UndefinedStr, UndefinedStr, UndefinedStr)}}

\* ids a PATCH names: the first record, and an id the sequence never gives
RecordIds == {1, MaxRecordRows + 1}

RecordWithinBounds == serial.studentSubjects <= MaxRecordRows

NextRecord ==
    \/ \E body \in NewRecordBodies :
          PostStudentSubjects(body) /\ RecordWithinBounds' /\ UNCHANGED aux
    \/ \E id \in RecordIds, body \in PatchBodies :
          PatchStudentSubject(id, body) /\ UNCHANGED aux

SpecRecord == Init /\ [][NextRecord]_vars

(***************************************************************************)
(* The requests of the store specification: one career with the study      *)
(* plan, one student, the student's records and enrollments, and the       *)
(* deletions.                                                              *)
(***************************************************************************)
CareerPlan == <<[name |-> "Profesorado de Matematica"]>>

Applicants ==
    <<[username |-> Str("alumno"), password |-> Str("secreto"),
       fullName |-> Str("Ana Alumna"), email |-> Str("ana@instituto.edu"),
       careerId |-> Num(10), fileNumber |-> Str("1001"),
       documentId |-> Str("30111222"), enrollmentYear |-> Num(20240),
       enrollmentDate |-> Str("2024-07-01"), status |-> UndefinedStr]>>

StudentUpdates == {[status |-> Str("inactive")]}

StoreRequirementBodies == {[subjectId |-> 2, requiredSubjectId |-> 1]}

StoreEnrollmentBodies ==
    [studentId : {1}, subjectId : {2}, type : {Str("cursada"), Str("examen")}]

StoreRecordBodies == {RecordEntry(1, 1, "acreditada")}

StorePatchBodies ==
    {Body(Str("acreditada"), Num(70), UndefinedStr, UndefinedStr, UndefinedStr)}

StoreWithinBounds ==
    /\ serial.requirements <= MaxStoreRows
    /\ serial.studentSubjects <= MaxStoreRows
    /\ serial.enrollments <= MaxStoreRows

NextStore ==
    \/ serial.careers < Len(CareerPlan)
          /\ PostCareers(CareerPlan[serial.careers + 1]) /\ UNCHANGED aux
    \/ serial.subjects < Len(StudyPlan)
          /\ PostSubjects(StudyPlan[serial.subjects + 1]) /\ UNCHANGED aux
    \/ \E body \in StoreRequirementBodies :
          PostRequirements(body) /\ StoreWithinBounds' /\ UNCHANGED aux
    \/ serial.students < Len(Applicants)
          /\ PostStudents(Applicants[serial.students + 1]) /\ UNCHANGED aux
    \/ \E id \in 1..Len(Applicants), body \in StudentUpdates :
          PutStudents(id, body) /\ UNCHANGED aux
    \/ \E body \in StoreRecordBodies :
          PostStudentSubjects(body) /\ StoreWithinBounds' /\ UNCHANGED aux
    \/ \E id \in 1..MaxStoreRows, body \in StorePatchBodies :
          PatchStudentSubject(id, body) /\ UNCHANGED aux
    \/ \E body \in StoreEnrollmentBodies :
          \E reqs \in RowOrders(getRequirements(body.subjectId)) :
              PostEnrollments(body, reqs) /\ StoreWithinBounds' /\ UNCHANGED aux
    \/ \E id \in 1..MaxStoreRows : DeleteEnrollments(id) /\ UNCHANGED aux
    \/ \E id \in 1..Len(StudyPlan) : DeleteSubjects(id) /\ UNCHANGED aux
    \/ \E id \in 1..Len(CareerPlan) : DeleteCareers(id) /\ UNCHANGED aux

SpecStore == Init /\ [][NextStore]_vars

(***************************************************************************)
(* The requests of the specification of enrollments in progress: the       *)
(* study plan, MAT201 requiring MAT101, student 1 having passed MAT101,    *)
(* and clients that enroll student 1 in MAT201.                            *)
(***************************************************************************)
MaxClients == 2    \* enrollment requests ever received

Curriculum == <<[subjectId |-> 2, requiredSubjectId |-> 1]>>

Transcript == <<RecordEntry(1, 1, "acreditada")>>

StepEnrollmentBodies ==
    [studentId : {1}, subjectId : {2}, type : {Str("cursada"), Str("examen")}]

Clients == 1..Len(inflight)

NextSteps ==
    \/ serial.subjects < Len(StudyPlan)
          /\ PostSubjects(StudyPlan[serial.subjects + 1]) /\ UNCHANGED aux
    \/ serial.subjects = Len(StudyPlan) /\ serial.requirements < Len(Curriculum)
          /\ PostRequirements(Curriculum[serial.requirements + 1]) /\ UNCHANGED aux
    \/ \E k \in 1..Len(Transcript) :
          /\ \A ss \in studentSubjects : ss.subjectId # Transcript[k].subjectId
          /\ PostStudentSubjects(Transcript[k]) /\ UNCHANGED aux
    \/ \E body \in StepEnrollmentBodies :
          Len(inflight) < MaxClients /\ Receive(body) /\ UNCHANGED <<session, log>>
    \/ \E c \in Clients : AwaitGetSubject(c) /\ UNCHANGED <<session, log>>
    \/ \E c \in Clients :
          \E reqs \in RowOrders(getRequirements(inflight[c].body.subjectId)) :
              AwaitGetRequirements(c, reqs) /\ UNCHANGED <<session, log>>
    \/ \E c \in Clients : AwaitGetStudentSubjects(c) /\ UNCHANGED <<session, log>>
    \/ \E c \in Clients : AwaitGetRequiredSubject(c) /\ UNCHANGED <<session, log>>
    \/ \E c \in Clients : AwaitCreateEnrollment(c) /\ UNCHANGED <<session, log>>
    \/ \E c \in Clients : AwaitAddStudentSubject(c) /\ UNCHANGED <<session, log>>
    \/ \E c \in Clients : StoreThrows(c) /\ UNCHANGED <<session, log>>

SpecSteps == Init /\ [][NextSteps]_vars

(***************************************************************************)
(* The requests of the session specification: the requests of the store    *)
(* specification, sent by a client that logs in and out.                   *)
(***************************************************************************)
LoginBodies ==
    {[username |-> "admin", password |-> "qwerty"],
     [username |-> "admin", password |-> "secreto"],
     [username |-> "alumno", password |-> "secreto"]}

NextSession ==
    \/ \E body \in LoginBodies : PostLogin(body) /\ UNCHANGED <<inflight, log>>
    \/ PostLogout /\ UNCHANGED <<inflight, log>>
    \/ NextStore

SpecSession == Init /\ [][NextSession]_vars

(***************************************************************************)
(* The requests of the specification with the latest responses: the study  *)
(* plan, MAT201 requiring MAT101, and the records and enrollments of       *)
(* student 1.  log holds the latest MaxLog responses.                      *)
(***************************************************************************)
MaxLog == 3    \* responses kept in log

Logged(r) == IF Len(log) < MaxLog THEN Append(log, r) ELSE Append(Tail(log), r)

LogRecordBodies ==
    {[studentId |-> 1, subjectId |-> 1] @@ b :
        b \in {Body(Str("acreditada"), Num(80), UndefinedStr, UndefinedStr, UndefinedStr),
               Body(Str("cursando"), UndefinedNum, UndefinedStr, UndefinedStr, UndefinedStr)}}

LogEnrollmentBodies ==
    [studentId : {1}, subjectId : {2}, type : {Str("cursada"), Str("examen")}]

NextLog ==
    \/ serial.subjects < Len(StudyPlan)
          /\ PostSubjects(StudyPlan[serial.subjects + 1])
          /\ log' = Logged(resp') /\ UNCHANGED <<session, inflight>>
    \/ serial.subjects = Len(StudyPlan) /\ serial.requirements < Len(Curriculum)
          /\ PostRequirements(Curriculum[serial.requirements + 1])
          /\ log' = Logged(resp') /\ UNCHANGED <<session, inflight>>
    \/ \E body \in LogRecordBodies :
          /\ PostStudentSubjects(body) /\ WithinBounds'
          /\ log' = Logged(resp') /\ UNCHANGED <<session, inflight>>
    \/ \E body \in LogEnrollmentBodies :
          \E reqs \in RowOrders(getRequirements(body.subjectId)) :
              /\ PostEnrollments(body, reqs) /\ WithinBounds'
              /\ log' = Logged(resp') /\ UNCHANGED <<session, inflight>>

SpecLog == Init /\ [][NextLog]_vars

(***************************************************************************)
(* The requests of the curriculum specification: a plan of three subjects  *)
(* where MAT202 requires MAT201, MAT201 requires MAT101 and MAT201         *)
(* requires MAT202 (a cycle), student 1 having passed MAT201, and          *)
(* repeated enrollments of student 1 in MAT201 and MAT202.                 *)
(***************************************************************************)
MaxPlanEnrollments == 2    \* enrollment rows ever written

LongPlan == StudyPlan \o <<[careerId |-> 1, code |-> "MAT202", name |-> "Algebra III"]>>

Chain == <<[subjectId |-> 3, requiredSubjectId |-> 2],
           [subjectId |-> 2, requiredSubjectId |-> 1],
           [subjectId |-> 2, requiredSubjectId |-> 3]>>

PlanTranscript == <<RecordEntry(1, 2, "acreditada")>>

PlanEnrollmentBodies ==
    [studentId : {1}, subjectId : {2, 3}, type : {Str("cursada"), Str("examen")}]

NextCurriculum ==
    \/ serial.subjects < Len(LongPlan)
          /\ PostSubjects(LongPlan[serial.subjects + 1]) /\ UNCHANGED aux
    \/ serial.requirements < Len(Chain)
          /\ PostRequirements(Chain[serial.requirements + 1]) /\ UNCHANGED aux
    \/ \E k \in 1..Len(PlanTranscript) :
          /\ \A ss \in studentSubjects : ss.status # PlanTranscript[k].status.v
          /\ PostStudentSubjects(PlanTranscript[k]) /\ UNCHANGED aux
    \/ \E body \in PlanEnrollmentBodies :
          \E reqs \in RowOrders(getRequirements(body.subjectId)) :
              /\ PostEnrollments(body, reqs)
              /\ serial'.enrollments <= MaxPlanEnrollments
              /\ UNCHANGED aux

SpecCurriculum == Init /\ [][NextCurriculum]_vars

(***************************************************************************)
(* The requests of the specification of an enrollment in progress while    *)
(* the records change: the study plan, MAT201 requiring MAT101, student 1  *)
(* having passed MAT101, clients that enroll student 1 in MAT201, and a    *)
(* client that sets the record of MAT101 to "libre".                       *)
(***************************************************************************)
MaxRaceClients == 1    \* enrollment requests ever received

RacePatchBodies ==
    {Body(Str("libre"), UndefinedNum, UndefinedStr, UndefinedStr, UndefinedStr)}

NextRace ==
    \/ serial.subjects < Len(StudyPlan)
          /\ PostSubjects(StudyPlan[serial.subjects + 1]) /\ UNCHANGED aux
    \/ serial.subjects = Len(StudyPlan) /\ serial.requirements < Len(Curriculum)
          /\ PostRequirements(Curriculum[serial.requirements + 1]) /\ UNCHANGED aux
    \/ \E k \in 1..Len(Transcript) :
          /\ \A ss \in studentSubjects : ss.subjectId # Transcript[k].subjectId
          /\ PostStudentSubjects(Transcript[k]) /\ UNCHANGED aux
    \/ \E body \in RacePatchBodies :
          PatchStudentSubject(1, body) /\ UNCHANGED aux
    \/ \E body \in StepEnrollmentBodies :
          Len(inflight) < MaxRaceClients /\ Receive(body) /\ UNCHANGED <<session, log>>
    \/ \E c \in Clients : AwaitGetSubject(c) /\ UNCHANGED <<session, log>>
    \/ \E c \in Clients :
          \E reqs \in RowOrders(getRequirements(inflight[c].body.subjectId)) :
              AwaitGetRequirements(c, reqs) /\ UNCHANGED <<session, log>>
    \/ \E c \in Clients : AwaitGetStudentSubjects(c) /\ UNCHANGED <<session, log>>
    \/ \E c \in Clients : AwaitGetRequiredSubject(c) /\ UNCHANGED <<session, log>>
    \/ \E c \in Clients : AwaitCreateEnrollment(c) /\ UNCHANGED <<session, log>>
    \/ \E c \in Clients : AwaitAddStudentSubject(c) /\ UNCHANGED <<session, log>>
    \/ \E c \in Clients : StoreThrows(c) /\ UNCHANGED <<session, log>>

SpecRace == Init /\ [][NextRace]_vars

(***************************************************************************)
(* The requests of the users specification: a client that registers, logs  *)
(* in and out, and assigns roles.                                          *)
(***************************************************************************)
MaxUsers == 2    \* rows of users, the administrator included

RegisterBodies ==
    {[username |-> Str(u), password |-> Str("secreto"),
      fullName |-> Str("Ana Alumna"), email |-> e] :
        u \in {"ana", "admin"}, e \in {Str("ana@instituto.edu"), UndefinedStr}}

UserLoginBodies ==
    {[username |-> "admin", password |-> "qwerty"],
     [username |-> "ana", password |-> "secreto"],
     [username |-> "ana", password |-> "qwerty"]}

RoleBodies ==
    {[role |-> r] :
        r \in {UndefinedStr, NullStr, Str("")}
              \cup {Str(v) : v \in validRoles \cup {"student", "root"}}}

NextUsers ==
    \/ \E body \in RegisterBodies :
          PostRegister(body) /\ serial'.users <= MaxUsers /\ UNCHANGED <<inflight, log>>
    \/ \E body \in UserLoginBodies : PostLogin(body) /\ UNCHANGED <<inflight, log>>
    \/ PostLogout /\ UNCHANGED <<inflight, log>>
    \/ \E id \in 1..(MaxUsers + 1), body \in RoleBodies :
          PatchUsersRole(id, body) /\ UNCHANGED aux

SpecUsers == Init /\ [][NextUsers]_vars

(***************************************************************************)
(* The requests of the students specification: applicants with two user    *)
(* names and two file numbers, with an enrollment date that is an ISO date *)
(* or is not a date, and updates of the students created.                  *)
(***************************************************************************)
StudentApplicants ==
    {[Applicants[1] EXCEPT !.username = Str(u), !.fileNumber = Str(f),
                           !.enrollmentDate = d] :
        u \in {"alumno", "alumna"}, f \in {"1001", "1002"},
        d \in {Str("2024-07-01"), Str("pronto"), UndefinedStr}}

NextStudents ==
    \/ serial.careers < Len(CareerPlan)
          /\ PostCareers(CareerPlan[serial.careers + 1]) /\ UNCHANGED aux
    \/ \E body \in StudentApplicants : PostStudents(body) /\ UNCHANGED aux
    \/ \E id \in 1..2, body \in StudentUpdates : PutStudents(id, body) /\ UNCHANGED aux

SpecStudents == Init /\ [][NextStudents]_vars

(***************************************************************************)
(* Properties of POST /api/enrollments.  They are stated on the steps of   *)
(* the specification: resp' is the response of the step, the unprimed      *)
(* tables are those the handler found and the primed ones those it left.   *)
(***************************************************************************)
\* the step is the handling of an enrollment request of the given type
\* that names a subject of the table
EnrollStep(type) ==
    /\ resp'.op = "POST /api/enrollments"
    /\ resp'.req.type = Str(type)
    /\ \E s \in subjects : s.id = resp'.req.subjectId

\* student T has passed subject R
Satisfied(T, R) ==
    \E ss \in studentSubjects :
        /\ ss.studentId = T
        /\ ss.subjectId = R
        /\ ss.status \in {"acreditada", "regular"}

\* the subjects S requires that student T has not passed
Unmet(T, S) ==
    {r.requiredSubjectId : r \in {q \in requirements : q.subjectId = S /\ ~Satisfied(T, q.requiredSubjectId)}}

\* the response is the prerequisite error
PrerequisiteError(r) ==
    r.code = 400 /\ Len(r.error) = 3 /\ r.error[1] = "Falta regularizar materia"

\* the step adds the single row e to enrollments, for the request of the step
AddsOneEnrollment ==
    \E e \in enrollments' :
        /\ \A x \in enrollments : x.id # e.id
        /\ enrollments' = enrollments \cup {e}
        /\ e.studentId = resp'.req.studentId
        /\ e.subjectId = resp'.req.subjectId
        /\ e.type = resp'.req.type.v

\* C1: an enrollment of type "cursada" in an existing subject passes the
\* prerequisite check exactly when the student has, for every requirement
\* row of the subject, a student-subject row of the required subject with
\* status "acreditada" or "regular"; with no requirement rows it passes.
C1_EligibleIffAllRequirementsMet ==
    [][EnrollStep("cursada") =>
          /\ (resp'.code = 201) <=> (Unmet(resp'.req.studentId, resp'.req.subjectId) = {})
          /\ ~PrerequisiteError(resp') <=> (resp'.code = 201)
          /\ (\A q \in requirements : q.subjectId # resp'.req.subjectId) => resp'.code = 201
      ]_vars

\* a "cursada" enrollment passed the check of a subject that has requirements
C1_Witness ==
    /\ resp.op = "POST /api/enrollments"
    /\ resp.req.type = Str("cursada")
    /\ resp.code = 201
    /\ \E q \in requirements : q.subjectId = resp.req.subjectId

\* C2: a "cursada" enrollment in a subject with an unmet requirement is
\* answered 400 "Falta regularizar ..." and leaves enrollments and
\* student_subjects as they were.
C2_RejectionWritesNothing ==
    [][(EnrollStep("cursada") /\ Unmet(resp'.req.studentId, resp'.req.subjectId) # {}) =>
          /\ PrerequisiteError(resp')
          /\ enrollments' = enrollments
          /\ studentSubjects' = studentSubjects
      ]_vars

\* a "cursada" enrollment was rejected for a requirement
C2_Witness ==
    /\ resp.op = "POST /api/enrollments"
    /\ resp.req.type = Str("cursada")
    /\ PrerequisiteError(resp)
    /\ Unmet(resp.req.studentId, resp.req.subjectId) # {}

\* C3: a successful "cursada" enrollment adds exactly one enrollment row and
\* exactly one student-subject row for (student, subject), with status
\* "cursando" and grade, date, book and folio null, and nothing else changes.
C3_SuccessAddsOneOfEach ==
    [][(EnrollStep("cursada") /\ resp'.code = 201) =>
          /\ Unmet(resp'.req.studentId, resp'.req.subjectId) = {}
          /\ AddsOneEnrollment
          /\ \E ss \in studentSubjects' :
                /\ \A x \in studentSubjects : x.id # ss.id
                /\ studentSubjects' = studentSubjects \cup {ss}
                /\ ss.studentId = resp'.req.studentId
                /\ ss.subjectId = resp'.req.subjectId
                /\ ss.status = "cursando"
                /\ ss.grade = NullNum /\ ss.date = NullNum
                /\ ss.book = NullStr /\ ss.folio = NullStr
          /\ subjects' = subjects
          /\ requirements' = requirements
      ]_vars

\* a "cursada" enrollment succeeded for a student who had passed a required
\* subject
C3_Witness ==
    /\ resp.op = "POST /api/enrollments"
    /\ resp.req.type = Str("cursada")
    /\ resp.code = 201
    /\ \E q \in requirements :
          q.subjectId = resp.req.subjectId /\ Satisfied(resp.req.studentId, q.requiredSubjectId)
    /\ \E ss \in studentSubjects : ss.status = "cursando"

\* the code and name by which the error message names subject R
SubjectLabel(R) ==
    IF \E x \in subjects : x.id = R
    THEN LET x == CHOOSE x \in subjects : x.id = R IN <<x.code, x.name>>
    ELSE <<"undefined", "undefined">>

\* the subjects a prerequisite error reports, and those it should
ReportedMissing(r) == {<<r.error[2], r.error[3]>>}
UnmetLabels(T, S) == {SubjectLabel(R) : R \in Unmet(T, S)}

\* the step is an enrollment request answered with the prerequisite error
RejectedStep ==
    /\ resp'.op = "POST /api/enrollments"
    /\ PrerequisiteError(resp')

C5_ExamenSkipsCheck ==
    [][EnrollStep("examen") => (resp'.code = 201 /\ AddsOneEnrollment)]_vars

\* C5 as amended: the prerequisite check is a precondition of every type:
\* an "examen" enrollment in an existing subject creates its enrollment row
\* when every requirement is met, and is otherwise answered 400 "Falta
\* regularizar ..." and writes nothing.
C5_ExamenChecked ==
    [][EnrollStep("examen") =>
          IF Unmet(resp'.req.studentId, resp'.req.subjectId) = {}
          THEN resp'.code = 201 /\ AddsOneEnrollment
          ELSE /\ PrerequisiteError(resp')
               /\ enrollments' = enrollments
               /\ studentSubjects' = studentSubjects
      ]_vars

\* an "examen" enrollment was rejected for a requirement
C5_Witness ==
    /\ resp.op = "POST /api/enrollments"
    /\ resp.req.type = Str("examen")
    /\ PrerequisiteError(resp)
    /\ enrollments = {}

\* C6: every successful enrollment adds its enrollment row; student_subjects
\* changes only in a successful "cursada" enrollment.
C6_RecordOnlyForCursada ==
    [][resp'.op = "POST /api/enrollments" =>
          /\ resp'.code = 201 => AddsOneEnrollment
          /\ (resp'.code = 201 /\ resp'.req.type # Str("cursada"))
                => studentSubjects' = studentSubjects
          /\ studentSubjects' # studentSubjects
                => (resp'.code = 201 /\ resp'.req.type = Str("cursada"))
      ]_vars

\* an "examen" enrollment succeeded in a subject with a requirement
C6_Witness ==
    /\ resp.op = "POST /api/enrollments"
    /\ resp.req.type = Str("examen")
    /\ resp.code = 201
    /\ \E e \in enrollments : e.id = resp.id /\ e.type = "examen"
    /\ \E q \in requirements : q.subjectId = resp.req.subjectId

\* C7: an enrollment of any type that names no subject of the table is
\* answered 400 "Subject not found"; no requirement is read and no row is
\* written.
C7_SubjectNotFound ==
    [][(/\ resp'.op = "POST /api/enrollments"
        /\ resp'.req.type.t = "val"
        /\ \A x \in subjects : x.id # resp'.req.subjectId) =>
          /\ resp'.code = 400
          /\ resp'.error = <<"Subject not found">>
          /\ \A k \in 1..Len(resp'.calls) :
                resp'.calls[k] \notin {"getRequirements", "getStudentSubjects"}
          /\ enrollments' = enrollments
          /\ studentSubjects' = studentSubjects
      ]_vars

\* an "examen" enrollment named a subject that is not in the table
C7_Witness ==
    /\ resp.op = "POST /api/enrollments"
    /\ resp.req.type = Str("examen")
    /\ resp.error = <<"Subject not found">>
    /\ \A x \in subjects : x.id # resp.req.subjectId

(***************************************************************************)
(* Properties of PATCH /api/student-subjects/:id.  In a step of the        *)
(* handler resp' holds the request and its response, the unprimed tables   *)
(* are those before the request and the primed ones those after it.        *)
(***************************************************************************)
PatchStep == resp'.op = "PATCH /api/student-subjects/:id"

\* the record the request names is stored
TargetStored == \E row \in studentSubjects : row.id = resp'.req.id

ValidationError(r) == r.code = 400

\* C8: a PATCH with status "acreditada" and no grade (absent or null) is
\* answered 400 "Grade is required for accredited subjects" and leaves the
\* table of records as it was; a PATCH with status "acreditada" and grade 7
\* that names a stored record is answered 200 and the record it names then has
\* status "acreditada" and grade 7.
C8_AcreditadaNeedsGrade ==
    [][PatchStep /\ resp'.req.body.status = Str("acreditada") =>
        /\ resp'.req.body.grade.t \in {"undefined", "null"} =>
            /\ ValidationError(resp')
            /\ resp'.error = <<"Grade is required for accredited subjects">>
            /\ studentSubjects' = studentSubjects
        /\ resp'.req.body.grade = Num(70) /\ TargetStored =>
            /\ resp'.code = 200
            /\ \E row \in studentSubjects' :
                /\ row.id = resp'.req.id
                /\ row.status = "acreditada"
                /\ row.grade = Num(7)
            /\ \A row \in studentSubjects' :
                row.id # resp'.req.id => row \in studentSubjects]_vars

\* C8 happens: record 1 was accredited with grade 7 by a PATCH, and a later
\* PATCH that accredits it with no grade has been rejected.
C8_Witness ==
    /\ resp.op = "PATCH /api/student-subjects/:id"
    /\ resp.req.id = 1
    /\ resp.req.body.status = Str("acreditada")
    /\ resp.req.body.grade.t \in {"undefined", "null"}
    /\ resp.code = 400
    /\ \E row \in studentSubjects :
        /\ row.id = 1
        /\ row.status = "acreditada"
        /\ row.grade = Num(7)
        /\ row.book = NullStr

\* C9: a PATCH with status "acreditada" and a grade outside 4..10 that names
\* a stored record is answered with a validation error and the table of
\* records is as it was.
C9_OutOfRangeGradeRejected ==
    [][/\ PatchStep
       /\ TargetStored
       /\ resp'.req.body.status = Str("acreditada")
       /\ resp'.req.body.grade.t = "val"
       /\ (resp'.req.body.grade.v < 40 \/ resp'.req.body.grade.v > 100)
       => ValidationError(resp') /\ studentSubjects' = studentSubjects]_vars

\* C10: a PATCH whose status is a string other than "cursando", "acreditada"
\* and "libre", naming a stored record, is answered 400 and the table of
\* records is as it was.
C10_UnrecognizedStatusRejected ==
    [][/\ PatchStep
       /\ TargetStored
       /\ resp'.req.body.status.t = "val"
       /\ resp'.req.body.status.v \notin {"cursando", "acreditada", "libre"}
       => ValidationError(resp') /\ studentSubjects' = studentSubjects]_vars

\* C11: a PATCH with a status the handler accepts that names a record that is
\* not stored is answered 404 and changes no row.
C11_MissingRecordIs404 ==
    [][/\ PatchStep
       /\ ~TargetStored
       /\ resp'.req.body.status \in {Str("cursando"), Str("libre")}
       => resp'.code = 404 /\ studentSubjects' = studentSubjects]_vars

\* the value a column holds after a partial update: kept when the field is
\* absent from the body, NULL when it is null, the given value otherwise
PartialUpdate(field, old, new) ==
    IF field.t = "undefined" THEN old ELSE IF field.t = "null" THEN NullNum ELSE new

\* C12: a PATCH with a recognized status or none that is answered 200 leaves
\* in every column of the record it names the stored value when the body does
\* not give the field, NULL when the body gives null, and the given value
\* otherwise; the other records are as they were.
C12_AbsentFieldsKept ==
    [][/\ PatchStep
       /\ resp'.code = 200
       /\ resp'.req.body.status \in
              {UndefinedStr, Str("cursando"), Str("acreditada"), Str("libre")}
       =>
        \A old \in studentSubjects :
            IF old.id # resp'.req.id
            THEN old \in studentSubjects'
            ELSE \E new \in studentSubjects' :
                LET b == resp'.req.body IN
                /\ new.id = old.id
                /\ new.status = (IF b.status.t = "val" THEN b.status.v ELSE old.status)
                /\ new.grade = PartialUpdate(b.grade, old.grade, Num(parseInt(b.grade)))
                /\ new.date = PartialUpdate(b.date, old.date, Num(NewDate(b.date.v)))
                /\ new.book = (IF b.book.t = "undefined" THEN old.book ELSE b.book)
                /\ new.folio = (IF b.folio.t = "undefined" THEN old.folio ELSE b.folio)]_vars

C14_RecordsNeverDeleted ==
    [][\A ss \in studentSubjects : \E t \in studentSubjects' : t.id = ss.id]_vars

\* C14 happens: the career and with it both subjects were deleted, the
\* enrollment was deleted and the student was updated, and a record of a
\* deleted subject is still stored.
C14_Witness ==
    /\ resp.op = "DELETE /api/careers/:id"
    /\ serial.subjects = Len(StudyPlan)
    /\ subjects = {}
    /\ careers = {}
    /\ serial.enrollments >= 1
    /\ enrollments = {}
    /\ \E st \in students : st.status = "inactive"
    /\ \E ss \in studentSubjects : ss.status = "acreditada" /\ ss.grade = Num(7)

\* C20: a PATCH that accredits a stored record with grade 7 is answered 200
\* and stores status "acreditada" and grade 7 whatever the requirements table
\* holds, and leaves the requirements table as it was.
C20_AccreditIgnoresRequirements ==
    [][/\ PatchStep
       /\ TargetStored
       /\ resp'.req.body.status = Str("acreditada")
       /\ resp'.req.body.grade = Num(70)
       =>
        /\ resp'.code = 200
        /\ requirements' = requirements
        /\ \E row \in studentSubjects' :
            /\ row.id = resp'.req.id
            /\ row.status = "acreditada"
            /\ row.grade = Num(7)]_vars

\* C20 happens: a record was accredited by a PATCH although its subject has
\* a requirement the student has not passed.
C20_Witness ==
    /\ resp.op = "PATCH /api/student-subjects/:id"
    /\ resp.code = 200
    /\ \E row \in studentSubjects :
        /\ row.id = resp.req.id
        /\ row.status = "acreditada"
        /\ Unmet(row.studentId, row.subjectId) # {}

(***************************************************************************)
(* Properties of enrollments in progress.                                  *)
(***************************************************************************)
\* the clients whose "cursada" enrollment of student T in subject S was
\* answered 201
Enrolled(T, S) ==
    {c \in Clients :
        /\ inflight[c].pc = "done"
        /\ inflight[c].resp.code = 201
        /\ inflight[c].body.studentId = T
        /\ inflight[c].body.subjectId = S
        /\ inflight[c].body.type = Str("cursada")}

CursandoRows(T, S) ==
    {ss \in studentSubjects :
        ss.studentId = T /\ ss.subjectId = S /\ ss.status = "cursando"}

CursadaRows(T, S) ==
    {e \in enrollments : e.studentId = T /\ e.subjectId = S /\ e.type = "cursada"}

\* C15: every "cursada" enrollment of student 1 in subject 2 that was answered
\* 201 wrote a "cursando" record and an enrollment row of its own, whatever
\* the other requests wrote: with two such answers there are two records and
\* two enrollment rows of the same student and subject.
C15_EveryCallWritesItsOwn ==
    /\ Cardinality(CursandoRows(1, 2)) = Cardinality(Enrolled(1, 2))
    /\ Cardinality(CursadaRows(1, 2)) >= Cardinality(Enrolled(1, 2))

\* C15 happens: two requests for the same student and subject were answered
\* 201, each having read the student's records before either record of the
\* subject was written, and the student has two "cursando" records and two
\* enrollment rows of the subject.
C15_Witness ==
    /\ Cardinality(Enrolled(1, 2)) = 2
    /\ \A c \in Enrolled(1, 2) :
        /\ inflight[c].studentSubjects # {}
        /\ \A ss \in inflight[c].studentSubjects : ss.subjectId # 2
    /\ Cardinality(CursandoRows(1, 2)) = 2
    /\ Cardinality(CursadaRows(1, 2)) = 2

\* C16: when addStudentSubject throws in a "cursada" enrollment, the request
\* is answered 500, the enrollment row the handler wrote stays, no record is
\* written and nothing is deleted; a handler that has answered makes no
\* further call.
C16_FailedRecordLeavesEnrollment ==
    [][\A c \in Clients :
        /\ (/\ inflight[c].pc = "addStudentSubject"
            /\ inflight'[c].pc = "done"
            /\ inflight'[c].resp.code # 201
            => /\ inflight'[c].resp.code = 500
               /\ resp' = inflight'[c].resp
               /\ enrollments' = enrollments
               /\ \E e \in enrollments' :
                     /\ e.id = inflight[c].enrollment
                     /\ e.studentId = inflight[c].body.studentId
                     /\ e.subjectId = inflight[c].body.subjectId
               /\ studentSubjects' = studentSubjects)
        /\ (inflight[c].pc = "done" => inflight'[c] = inflight[c])]_vars

\* C16 happens: a "cursada" request was answered 500 after it had written
\* its enrollment row; the row is stored and the student has no record of
\* the subject.
C16_Witness ==
    \E c \in Clients :
        /\ inflight[c].pc = "done"
        /\ inflight[c].resp.code = 500
        /\ inflight[c].body.type = Str("cursada")
        /\ inflight[c].enrollment # 0
        /\ \E e \in enrollments : e.id = inflight[c].enrollment
        /\ \A ss \in studentSubjects : ss.subjectId # inflight[c].body.subjectId

(***************************************************************************)
(* Properties of the session.                                              *)
(***************************************************************************)
\* C17: a request of the academic API sent while no user is logged in
\* changes no row of any table.
C17_UnauthenticatedChangesNothing ==
    [][/\ session = 0
       /\ resp'.op \notin {"POST /api/login", "POST /api/logout"}
       => UNCHANGED <<subjects, requirements, studentSubjects, enrollments,
                      careers, users, students>>]_vars

(***************************************************************************)
(* Properties of the records' status and of successive requests.           *)
(***************************************************************************)
\* C18: every student-subject row has status "cursando", "acreditada" or
\* "libre".
C18_StatusRecognized ==
    \A ss \in studentSubjects : ss.status \in {"cursando", "acreditada", "libre"}

\* three successive responses: a "cursada" enrollment of student X in subject
\* S rejected naming R, the record of R entered for X as "acreditada" with
\* grade 8, and the same enrollment again
RejectedThenPassed(a, b, c, R) ==
    /\ a.op = "POST /api/enrollments"
    /\ a.req.type = Str("cursada")
    /\ PrerequisiteError(a)
    /\ ReportedMissing(a) = {SubjectLabel(R)}
    /\ \A q \in getRequirements(a.req.subjectId) : q.requiredSubjectId = R
    /\ b.op = "POST /api/student-subjects"
    /\ b.code = 201
    /\ b.req.studentId = a.req.studentId
    /\ b.req.subjectId = R
    /\ b.req.status = Str("acreditada")
    /\ b.req.grade = Num(80)
    /\ c.op = "POST /api/enrollments"
    /\ c.req = a.req

\* C19: when a "cursada" enrollment in a subject whose only required subject
\* is R was rejected naming R, and the student's record of R was then entered
\* as "acreditada" with grade 8, the same enrollment sent next is answered 201.
C19_EnrollSucceedsAfterRecord ==
    \A i \in 1..(Len(log) - 2) : \A R \in SubjectIds :
        RejectedThenPassed(log[i], log[i + 1], log[i + 2], R) => log[i + 2].code = 201

\* C19 happens: the three latest responses are the rejection, the record
\* entry and the enrollment answered 201, and the rejected request left no
\* enrollment row: the only one is that of the last response.
C19_Witness ==
    /\ Len(log) = 3
    /\ RejectedThenPassed(log[1], log[2], log[3], 1)
    /\ log[3].code = 201
    /\ \A e \in enrollments : e.id = log[3].id
    /\ enrollments # {}

(***************************************************************************)
(* Properties of the curriculum.                                           *)
(***************************************************************************)
\* the number of awaits of method among the storage calls of response r
CallsOf(r, method) == Cardinality({k \in 1..Len(r.calls) : r.calls[k] = method})

\* C21: a "cursada" enrollment of a student in a subject the student is
\* already enrolled in as "cursada" is accepted exactly when the student
\* meets the requirements, as the first one was; when it is accepted the pair
\* has one more enrollment row and one more "cursando" record than before,
\* under ids no row had, and the rows of the earlier call are kept as they
\* were.
C21_EnrollTwiceWritesTwice ==
    [][LET T == resp'.req.studentId
           S == resp'.req.subjectId IN
       EnrollStep("cursada") /\ CursadaRows(T, S) # {} =>
          /\ (resp'.code = 201) <=> (Unmet(T, S) = {})
          /\ resp'.code = 201 =>
                /\ Cardinality({e \in enrollments' :
                                   e.studentId = T /\ e.subjectId = S /\ e.type = "cursada"})
                      = Cardinality(CursadaRows(T, S)) + 1
                /\ Cardinality({ss \in studentSubjects' :
                                   ss.studentId = T /\ ss.subjectId = S /\ ss.status = "cursando"})
                      = Cardinality(CursandoRows(T, S)) + 1
                /\ enrollments \subseteq enrollments'
                /\ studentSubjects \subseteq studentSubjects'
                /\ \A e \in enrollments : e.id # resp'.id
                /\ \A x \in studentSubjects' \ studentSubjects :
                      \A ss \in studentSubjects : ss.id # x.id
      ]_vars

\* C21 happens: the second "cursada" enrollment of student 1 in a subject was
\* answered 201 and the pair has two enrollment rows and two "cursando"
\* records.
C21_Witness ==
    /\ resp.op = "POST /api/enrollments"
    /\ resp.code = 201
    /\ resp.req.type = Str("cursada")
    /\ Cardinality(CursadaRows(resp.req.studentId, resp.req.subjectId)) = 2
    /\ Cardinality(CursandoRows(resp.req.studentId, resp.req.subjectId)) = 2

\* C22: a "cursada" enrollment in an existing subject is accepted when the
\* student has passed every subject the subject requires directly, whatever
\* those subjects require; the handler reads the requirement rows once and
\* the student's records at most once per requirement row of the subject,
\* also when the requirement rows form a cycle.
C22_OnlyDirectRequirements ==
    [][LET T == resp'.req.studentId
           S == resp'.req.subjectId IN
       EnrollStep("cursada") =>
          /\ (\A q \in requirements :
                 q.subjectId = S => Satisfied(T, q.requiredSubjectId))
             => resp'.code = 201
          /\ CallsOf(resp', "getRequirements") = 1
          /\ CallsOf(resp', "getStudentSubjects")
                <= Cardinality({q \in requirements : q.subjectId = S})
      ]_vars

\* C22 happens: MAT202 requires MAT201, MAT201 requires MAT101 and MAT202;
\* student 1 has passed MAT201, has no record of MAT101, and the "cursada"
\* enrollment in MAT202 was answered 201.
C22_Witness ==
    /\ resp.op = "POST /api/enrollments"
    /\ resp.code = 201
    /\ resp.req = [studentId |-> 1, subjectId |-> 3, type |-> Str("cursada")]
    /\ \E q \in requirements : q.subjectId = 3 /\ q.requiredSubjectId = 2
    /\ \E q \in requirements : q.subjectId = 2 /\ q.requiredSubjectId = 1
    /\ \E q \in requirements : q.subjectId = 2 /\ q.requiredSubjectId = 3
    /\ Satisfied(1, 2)
    /\ \A ss \in studentSubjects : ss.subjectId # 1

(***************************************************************************)
(* Properties of an enrollment in progress while the records change.       *)
(***************************************************************************)
\* the handler of client c made the storage call it awaited at pc and the
\* call did not throw
Returned(c, pc) ==
    /\ inflight[c].pc = pc
    /\ inflight'[c] # inflight[c]
    /\ inflight'[c].resp.code # 500

\* C23: the handler's writes do not look at the records again.  Once the
\* loop has passed, createEnrollment inserts the enrollment row and, for a
\* "cursada", addStudentSubject inserts the "cursando" record and the request
\* is answered 201, whether or not the student still meets the requirements
\* when the rows are written.
C23_WritesAfterCheckUnconditional ==
    [][\A c \in Clients :
        LET b == inflight[c].body IN
        /\ Returned(c, "createEnrollment") =>
              /\ inflight'[c].enrollment = serial.enrollments + 1
              /\ enrollments' = enrollments \cup
                    {[id |-> serial.enrollments + 1, studentId |-> b.studentId,
                      subjectId |-> b.subjectId, type |-> b.type.v,
                      examDate |-> NullNum]}
              /\ inflight'[c].pc =
                    IF b.type = Str("cursada") THEN "addStudentSubject" ELSE "done"
        /\ Returned(c, "addStudentSubject") =>
              /\ inflight'[c].resp.code = 201
              /\ \E ss \in studentSubjects' :
                    /\ studentSubjects' = studentSubjects \cup {ss}
                    /\ ss.id = serial.studentSubjects + 1
                    /\ ss.studentId = b.studentId
                    /\ ss.subjectId = b.subjectId
                    /\ ss.status = "cursando"]_vars

\* C23 happens: the handler read the record of MAT101 as "acreditada", the
\* record was set to "libre" before the handler's last write, and the
\* "cursada" enrollment in MAT201 was answered 201 with its enrollment row
\* and "cursando" record written while the requirement is unmet.
C23_Witness ==
    \E c \in Clients :
        /\ inflight[c].pc = "done"
        /\ resp = inflight[c].resp
        /\ resp.code = 201
        /\ inflight[c].body = [studentId |-> 1, subjectId |-> 2, type |-> Str("cursada")]
        /\ \E ss \in inflight[c].studentSubjects :
              ss.subjectId = 1 /\ ss.status = "acreditada"
        /\ \E ss \in studentSubjects : ss.subjectId = 1 /\ ss.status = "libre"
        /\ Unmet(1, 2) = {1}
        /\ \E e \in enrollments : e.id = inflight[c].enrollment /\ e.subjectId = 2
        /\ CursandoRows(1, 2) # {}

(***************************************************************************)
(* Properties of the status of a record.                                   *)
(***************************************************************************)
Recognized == {"cursando", "acreditada", "libre"}

\* C24: a PATCH that names a stored record of a recognized status and gives
\* a recognized status, with a grade when the status is "acreditada", is
\* answered 200 and the record then has the status given, whatever status
\* it had: no status is final.
C24_NoTerminalStatus ==
    [][PatchStep
       /\ (\E row \in studentSubjects :
              row.id = resp'.req.id /\ row.status \in Recognized)
       /\ resp'.req.body.status.t = "val"
       /\ resp'.req.body.status.v \in Recognized
       /\ (resp'.req.body.status.v = "acreditada" => TruthyNum(resp'.req.body.grade))
       => /\ resp'.code = 200
          /\ \E row \in studentSubjects' :
                row.id = resp'.req.id /\ row.status = resp'.req.body.status.v
      ]_vars

\* C24 happens: the record entered as "acreditada" in book L2 has been set to
\* "cursando" by a PATCH answered 200.
C24_Witness ==
    /\ resp.op = "PATCH /api/student-subjects/:id"
    /\ resp.code = 200
    /\ resp.req.body.status = Str("cursando")
    /\ \E row \in studentSubjects :
          /\ row.id = resp.req.id
          /\ row.status = "cursando"
          /\ row.book = Str("L2")

(***************************************************************************)
(* Properties of the deletion of subjects and careers.                     *)
(***************************************************************************)
\* no row of subjects' has an id of ids and no row of requirements' names
\* one on either side; the other rows of both tables are kept
SubjectsGone(ids) ==
    /\ subjects' = {s \in subjects : s.id \notin ids}
    /\ \A r \in requirements' : r.subjectId \notin ids /\ r.requiredSubjectId \notin ids
    /\ requirements' \subseteq requirements
    /\ \A r \in requirements \ requirements' :
          r.subjectId \in ids \/ r.requiredSubjectId \in ids

\* C25: DELETE /api/subjects/:id leaves no subject of that id and no
\* requirement row that names it as the subject or as the required subject;
\* DELETE /api/careers/:id does so for every subject of the career and
\* leaves no career of that id.
C25_DeleteSubjectTakesRequirements ==
    [][/\ resp'.op = "DELETE /api/subjects/:id" =>
             resp'.code = 204 /\ SubjectsGone({resp'.req.id})
       /\ resp'.op = "DELETE /api/careers/:id" =>
             /\ resp'.code = 204
             /\ SubjectsGone({s.id : s \in {x \in subjects : x.careerId = resp'.req.id}})
             /\ careers' = {c \in careers : c.id # resp'.req.id}
      ]_vars

\* C25 happens: MAT201 required MAT101, MAT101 has been deleted, and MAT201
\* is stored with no requirement row left.
C25_Witness ==
    /\ resp.op = "DELETE /api/subjects/:id"
    /\ resp.req.id = 1
    /\ serial.subjects = Len(StudyPlan)
    /\ serial.requirements = 1
    /\ requirements = {}
    /\ \A s \in subjects : s.id # 1
    /\ \E s \in subjects : s.id = 2

(***************************************************************************)
(* Properties of the roles of users.                                       *)
(***************************************************************************)
RoleStep == resp'.op = "PATCH /api/users/:id/role"

\* the user of the session is stored with role "admin"
CallerIsAdmin == \E u \in users : u.id = session /\ u.role = "admin"

\* C26: PATCH /api/users/:id/role answers 401 to a caller with no session,
\* 403 to a caller whose role is not "admin", and 400 to an administrator
\* who gives no role or a role outside validRoles; in those cases the table
\* of users is as it was.  When a row changes, the caller is an
\* administrator, the role given is in validRoles, and the change is the
\* role of the user named, set to the role given.
C26_RoleChangeNeedsAdmin ==
    [][RoleStep =>
          /\ (\A u \in users : u.id # session) => resp'.code = 401
          /\ (\E u \in users : u.id = session /\ u.role # "admin") => resp'.code = 403
          /\ CallerIsAdmin /\ ~TruthyStr(resp'.req.body.role) => resp'.code = 400
          /\ CallerIsAdmin /\ resp'.req.body.role.v \notin validRoles => resp'.code = 400
          /\ resp'.code \in {400, 401, 403} => users' = users
          /\ users' # users =>
                /\ CallerIsAdmin
                /\ resp'.req.body.role.t = "val"
                /\ resp'.req.body.role.v \in validRoles
                /\ resp'.code = 200
                /\ users' = {IF u.id = resp'.req.id
                             THEN [u EXCEPT !.role = resp'.req.body.role.v]
                             ELSE u : u \in users}
      ]_vars

\* C26 happens: the registered user, whom the administrator made "docente",
\* is logged in, asked for the role "admin" and was answered 403; the user
\* is still "docente".
C26_Witness ==
    /\ resp.op = "PATCH /api/users/:id/role"
    /\ resp.code = 403
    /\ resp.req.body.role = Str("admin")
    /\ session = 2
    /\ resp.req.id = 2
    /\ \E u \in users : u.id = 2 /\ u.username = "ana" /\ u.role = "docente"

(***************************************************************************)
(* Properties of the tables in every state.                                *)
(***************************************************************************)
\* C27: every record with status "acreditada" has a grade, and the grade is
\* in 4..10.
C27_AcreditadaHasGradeInRange ==
    \A ss \in studentSubjects :
        ss.status = "acreditada" => ss.grade.t = "val" /\ ss.grade.v \in 4..10

\* C28: every enrollment row and every record names a student and a subject
\* that are stored.
C28_RowsReferToStoredRows ==
    \A row \in enrollments \cup studentSubjects :
        /\ \E st \in students : st.id = row.studentId
        /\ \E s \in subjects : s.id = row.subjectId

(***************************************************************************)
(* Properties of POST /api/students.                                       *)
(***************************************************************************)
\* C29: POST /api/students either leaves users and students as they were,
\* or adds one user and the one student of that user.
C29_StudentCreationAllOrNothing ==
    [][resp'.op = "POST /api/students" =>
          \/ users' = users /\ students' = students
          \/ \E u \in users' \ users, st \in students' \ students :
                /\ users' = users \cup {u}
                /\ students' = students \cup {st}
                /\ st.userId = u.id
      ]_vars

\* C30: the role of every user is one of validRoles.
C30_RolesAreValid == \A u \in users : u.role \in validRoles
====
